---- MODULE Spec2Model ----
(***************************************************************************)
(* RedisClient (src/cpp/src/communication/redis_client.h): a connection-   *)
(* backed facade over a key/value + list + pub/sub store.                  *)
(*                                                                         *)
(* The client's own state is the connection handle `context` and the flag  *)
(* `connected`.  The store it talks to is modelled by its keyspace         *)
(* (`strings`, `lists`).  Every public method is one action; each          *)
(* redisCommand round trip inside a method draws the store's outcome (the  *)
(* reply, and whether the store executed the command) from the outcomes    *)
(* the wire protocol allows.                                               *)
(*                                                                         *)
(* Strings (keys, symbols, status texts, serialized documents) are         *)
(* sequences of one-character strings / tokens, so that concatenation,     *)
(* find_last_of and substr are computed as the code computes them.         *)
(***************************************************************************)
EXTENDS Integers, Sequences, FiniteSets, TLC

VARIABLES
    alive,        \* the RedisClient object exists (constructed, not yet destroyed)
    context,      \* redisContext* context: a handle id, or NULLPTR
    connected,    \* bool connected
    nextHandle,   \* id the next redisConnect allocation would get
    handles,      \* handle id -> [err, frees]: every context ever allocated
    strings,      \* store keyspace, string-typed keys: key -> blob
    lists,        \* store keyspace, list-typed keys:   key -> sequence of blobs
    call,         \* the method call that ran last, with its arguments and result
    cmds,         \* the store commands that call issued, in order, with their outcome
    acked,        \* per symbol: blobs of the storeStockData calls that returned true, newest first
    pushed,       \* per symbol: blobs whose LPUSH the store executed, newest first
    untrimmed,    \* per symbol: an LPUSH was executed and no LTRIM since
    lastset,      \* per symbol: who made the latest executed SET of its quote key
    ncalls,       \* number of method calls made so far
    dropped,      \* a command of this client got no reply since its last connect()
    callers       \* the other clients, one per concurrent caller, and where each is in its call

vars == <<alive, context, connected, nextHandle, handles, strings, lists,
          call, cmds, acked, pushed, untrimmed, lastset, ncalls, dropped, callers>>

client == <<alive, context, connected, nextHandle, handles>>
store  == <<strings, lists>>
ghost  == <<acked, pushed, untrimmed, lastset>>

----------------------------------------------------------------------------
(* Bounds of the model *)

\* method calls per behaviour
MaxCalls == 2
\* largest subscriber count a PUBLISH reply reports
MaxSubs == 1
\* largest value of std::time(nullptr)
MaxTime == 1
\* concurrent callers, each with its own client
NumCallers == 2

(* Program constants *)

\* "LTRIM %s 0 999": the stop index of the trim
TrimStop == 999
\* the history cap that follows from it
HistCap == TrimStop + 1

----------------------------------------------------------------------------
(* Strings *)

NULLPTR == 0

EmptyStr == << >>

Colon == ":"

STOCK_CURRENT == <<"s","t","o","c","k",":","c","u","r","r","e","n","t",":">>
STOCK_HISTORY == <<"s","t","o","c","k",":","h","i","s","t","o","r","y",":">>
SIGNAL_LATEST == <<"s","i","g","n","a","l",":","l","a","t","e","s","t",":">>
SIGNALS_STREAM == <<"s","i","g","n","a","l","s",":","s","t","r","e","a","m">>

OK == <<"O","K">>

AAPL == <<"A","A","P","L">>
TSLA == <<"T","S","L","A">>
\* a symbol that itself contains the separator
BRK_B == <<"B",":","B">>

Symbols == {AAPL, TSLA, BRK_B}

Channels == {<<"c","h">>}

\* the symbols signals are stored for
SignalSymbols == {AAPL}

\* mutant: the symbol is left out of the key
StockCurrentKeyShared(symbol) == STOCK_CURRENT

\* "stock:current:" + symbol
StockCurrentKey(symbol) == STOCK_CURRENT \o symbol
\* "stock:history:" + symbol
StockHistoryKey(symbol) == STOCK_HISTORY \o symbol
\* "signal:latest:" + symbol
SignalLatestKey(symbol) == SIGNAL_LATEST \o symbol

\* mutant: find_first_of in place of find_last_of
FindFirstOf(key, ch) ==
    LET hits == {i \in 1..Len(key) : key[i] = ch}
    IN IF hits = {} THEN 0 ELSE CHOOSE i \in hits : \A j \in hits : i <= j

\* key.find_last_of(':'): the last index holding ':', 0 for npos (indices from 1)
FindLastOf(key, ch) ==
    LET hits == {i \in 1..Len(key) : key[i] = ch}
    IN IF hits = {} THEN 0 ELSE CHOOSE i \in hits : \A j \in hits : j <= i

\* key.substr(pos + 1) with pos counted from 0: everything after index `at`
SubstrAfter(key, at) == SubSeq(key, at + 1, Len(key))

----------------------------------------------------------------------------
(* JSON documents and json::dump *)

\* nlohmann::json objects keep their members ordered by key
KeyOrder == <<"confidence", "price", "reason", "signal", "source", "symbol", "timestamp">>

\* the quote documents callers pass in
Docs == { [k \in {"price"} |-> p] : p \in {1, 2} }

\* the documents callers publish
PublishedDocs == { [k \in {"price"} |-> 1] }

\* data.dump(): the members in key order between braces
dump(data) ==
    LET present == SelectSeq(KeyOrder, LAMBDA k : k \in DOMAIN data)
    IN <<"{">> \o [i \in 1..Len(present) |-> <<present[i], data[present[i]]>>] \o <<"}">>

----------------------------------------------------------------------------
(* redisReply and the store's commands *)

Reply(type, str, integer, element) ==
    [type |-> type, str |-> str, integer |-> integer, element |-> element]

\* redisCommand returned nullptr: no reply at all
NullReply == Reply("nullptr", EmptyStr, 0, << >>)
\* no command was issued
NoReply == Reply("none", EmptyStr, 0, << >>)
\* REDIS_REPLY_STATUS
Status(text) == Reply("STATUS", text, 0, << >>)
\* REDIS_REPLY_ERROR
Error == Reply("ERROR", <<"E","R","R">>, 0, << >>)
\* REDIS_REPLY_INTEGER
Integer(n) == Reply("INTEGER", EmptyStr, n, << >>)
\* REDIS_REPLY_STRING
String(blob) == Reply("STRING", blob, 0, << >>)
\* REDIS_REPLY_NIL
Nil == Reply("NIL", EmptyStr, 0, << >>)
\* REDIS_REPLY_ARRAY of string elements
Array(elems) == Reply("ARRAY", EmptyStr, 0, elems)

QUEUED == <<"Q","U","E","U","E","D">>

Outcome(reply, applied) == [reply |-> reply, applied |-> applied]

\* What one "SET key value" round trip can produce: the store acknowledges
\* with +OK after writing; it answers with another status or an error
\* without writing; or the transport fails (no reply), before or after the
\* store executed the command.
SetOutcomes ==
    { Outcome(Status(OK), TRUE), Outcome(Status(QUEUED), FALSE),
      Outcome(Error, FALSE), Outcome(NullReply, TRUE), Outcome(NullReply, FALSE) }

\* "LPUSH key value" on a list that now holds `list`
LPushOutcomes(list) ==
    { Outcome(Integer(Len(list) + 1), TRUE), Outcome(Error, FALSE),
      Outcome(NullReply, TRUE), Outcome(NullReply, FALSE) }

\* "LTRIM key 0 999"
LTrimOutcomes ==
    { Outcome(Status(OK), TRUE), Outcome(Error, FALSE),
      Outcome(NullReply, TRUE), Outcome(NullReply, FALSE) }

\* "GET key": the value when the key holds a string, nil when it is absent
GetOutcomes(key) ==
    { Outcome(IF key \in DOMAIN strings THEN String(strings[key]) ELSE Nil, TRUE),
      Outcome(Error, FALSE), Outcome(NullReply, FALSE) }

\* "PUBLISH channel message": the number of subscribers that received it
PublishOutcomes ==
    { Outcome(Integer(n), TRUE) : n \in 0..MaxSubs }
        \cup { Outcome(Error, FALSE), Outcome(NullReply, TRUE), Outcome(NullReply, FALSE) }

HasPrefix(key, prefix) ==
    Len(key) >= Len(prefix) /\ SubSeq(key, 1, Len(prefix)) = prefix

\* the keys the glob pattern stock:current:* matches
MatchingKeys ==
    { k \in (DOMAIN strings) \cup (DOMAIN lists) : HasPrefix(k, STOCK_CURRENT) }

\* every order in which the store may list a set of keys
Orderings(S) ==
    { p \in [1..Cardinality(S) -> S] : \A k \in S : \E i \in 1..Cardinality(S) : p[i] = k }

\* "KEYS stock:current:*"
KeysOutcomes ==
    { Outcome(Array(p), TRUE) : p \in Orderings(MatchingKeys) }
        \cup { Outcome(Error, FALSE), Outcome(NullReply, FALSE) }

\* mutant: a write that leaves an existing value alone (SET key value NX)
SetApplyIfAbsent(strs, key, value) ==
    [k \in (DOMAIN strs) \cup {key} |-> IF k \in DOMAIN strs THEN strs[k] ELSE value]

\* SET: the key holds `value` afterwards, whatever it held before
SetApply(strs, key, value) ==
    [k \in (DOMAIN strs) \cup {key} |-> IF k = key THEN value ELSE strs[k]]

\* the list stored under key, empty when the key is absent
ListAt(lsts, key) == IF key \in DOMAIN lsts THEN lsts[key] ELSE << >>

\* mutant: RPUSH in place of LPUSH
LPushAtTail(list, value) == list \o <<value>>

\* LPUSH: value becomes the head of the list
LPush(list, value) == <<value>> \o list

\* mutant: a trim that keeps the oldest entries (LTRIM key -1000 -1)
LTrimKeepsOldest(list, stop) ==
    SubSeq(list, IF Len(list) <= stop + 1 THEN 1 ELSE Len(list) - stop, Len(list))

\* mutant: a trim whose stop index is off by one (LTRIM key 0 1000)
LTrimOffByOne(list, stop) ==
    SubSeq(list, 1, IF Len(list) <= stop + 2 THEN Len(list) ELSE stop + 2)

\* mutant: a trim that removes nothing (LTRIM key 0 -1)
LTrimNothing(list, stop) == list

\* LTRIM list 0 stop: keep indices 0..stop
LTrim(list, stop) ==
    SubSeq(list, 1, IF Len(list) <= stop + 1 THEN Len(list) ELSE stop + 1)

\* store a list under key; an empty list removes the key
PutList(lsts, key, list) ==
    IF list = << >>
    THEN [k \in (DOMAIN lsts) \ {key} |-> lsts[k]]
    ELSE [k \in (DOMAIN lsts) \cup {key} |-> IF k = key THEN list ELSE lsts[k]]

\* one command of a call, as issued, with what the store did with it
Cmd(name, key, arg, o) ==
    [name |-> name, key |-> key, arg |-> arg, applied |-> o.applied]

----------------------------------------------------------------------------
(* The client *)

\* what a method call leaves behind: its name, its arguments, the reply to
\* its first command (NoReply when it issued none) and its result
Call(name, symbol, blob, reply, retBool, retStr, retVec) ==
    [name |-> name, symbol |-> symbol, blob |-> blob, reply |-> reply,
     retBool |-> retBool, retStr |-> retStr, retVec |-> retVec]

\* redisConnect(host, port): no context (allocation failure), a context
\* carrying an error, or a usable context
ConnectOutcomes == {"nullptr", "err", "ok"}

\* the context redisConnect hands back
RedisConnect(outcome, fresh) == IF outcome = "nullptr" THEN NULLPTR ELSE fresh

\* the handle table once redisConnect has returned
Allocated(hs, outcome, fresh) ==
    IF outcome = "nullptr"
    THEN hs
    ELSE [h \in (DOMAIN hs) \cup {fresh} |->
            IF h = fresh THEN [err |-> outcome = "err", frees |-> 0] ELSE hs[h]]

\* redisFree(h)
RedisFree(hs, h) == [hs EXCEPT ![h].frees = @ + 1]

\* mutant: the error carried by the context is not looked at
ConnectFailedNullOnly(hs, h) == h = NULLPTR

\* context == nullptr || context->err
ConnectFailed(hs, h) == h = NULLPTR \/ hs[h].err

\* connect(): the values of context, connected, handles and the result
\* after the call, from the handle table before it
ConnectResult(hs, outcome, fresh) ==
    LET h   == RedisConnect(outcome, fresh)
        hs1 == Allocated(hs, outcome, fresh)
    IN IF ConnectFailed(hs1, h)
       THEN [context   |-> NULLPTR,
             handles   |-> IF h # NULLPTR THEN RedisFree(hs1, h) ELSE hs1,
             connected |-> FALSE,
             ret       |-> FALSE]
       ELSE [context   |-> h,
             handles   |-> hs1,
             connected |-> TRUE,
             ret       |-> TRUE]

NoHandles == [h \in {} |-> [err |-> FALSE, frees |-> 0]]
NoKeys == [k \in {} |-> EmptyStr]

\* bool connect()
connect ==
    /\ alive /\ ncalls < MaxCalls
    /\ \E outcome \in ConnectOutcomes :
         LET r == ConnectResult(handles, outcome, nextHandle)
         IN /\ context' = r.context
            /\ handles' = r.handles
            /\ connected' = r.connected
            /\ nextHandle' = IF outcome = "nullptr" THEN nextHandle ELSE nextHandle + 1
            /\ call' = Call("connect", EmptyStr, EmptyStr, NoReply, r.ret, EmptyStr, << >>)
    /\ cmds' = << >>
    /\ ncalls' = ncalls + 1
    /\ dropped' = FALSE
    /\ UNCHANGED <<alive, store, ghost, callers>>

\* bool isConnected() const
isConnected ==
    /\ alive /\ ncalls < MaxCalls
    /\ call' = Call("isConnected", EmptyStr, EmptyStr, NoReply, connected, EmptyStr, << >>)
    /\ cmds' = << >>
    /\ ncalls' = ncalls + 1
    /\ UNCHANGED <<client, store, ghost, dropped, callers>>

\* ~RedisClient()
Destroy ==
    /\ alive
    /\ alive' = FALSE
    /\ handles' = IF context # NULLPTR /\ connected THEN RedisFree(handles, context) ELSE handles
    /\ call' = Call("~RedisClient", EmptyStr, EmptyStr, NoReply, FALSE, EmptyStr, << >>)
    /\ cmds' = << >>
    /\ UNCHANGED <<context, connected, nextHandle, store, ghost, ncalls, dropped, callers>>

\* mutant: the status text is not compared
SetAckedTypeOnly(reply) == reply.type = "STATUS"

\* reply->type == REDIS_REPLY_STATUS && std::string(reply->str) == "OK"
SetAcked(reply) == reply.type = "STATUS" /\ reply.str = OK

\* mutant: the history commands are issued whatever the SET reply says
AppendsHistoryAlways(success) == TRUE

\* mutant: the history commands are never issued
AppendsHistoryNever(success) == FALSE

\* if (success) { LPUSH ...; LTRIM ...; }
AppendsHistory(success) == success

\* bool storeStockData(symbol, data)
storeStockData(symbol, data) ==
    /\ alive /\ ncalls < MaxCalls
    /\ ncalls' = ncalls + 1
    /\ UNCHANGED <<client, callers>>
    /\ LET key      == StockCurrentKey(symbol)
           json_str == dump(data)
           hist_key == StockHistoryKey(symbol)
           old      == ListAt(lists, hist_key)
       IN IF ~connected
          THEN /\ call' = Call("storeStockData", symbol, json_str, NoReply, FALSE, EmptyStr, << >>)
               /\ cmds' = << >>
               /\ UNCHANGED <<store, ghost, dropped>>
          ELSE \E o1 \in SetOutcomes :
               LET success == o1.reply # NullReply /\ SetAcked(o1.reply)
               IN /\ dropped' = (dropped \/ o1.reply = NullReply)
                  /\ strings' = IF o1.applied THEN SetApply(strings, key, json_str) ELSE strings
                  /\ call' = Call("storeStockData", symbol, json_str, o1.reply, success, EmptyStr, << >>)
                  /\ acked' = IF success THEN [acked EXCEPT ![symbol] = <<json_str>> \o @] ELSE acked
                  /\ lastset' = IF o1.applied
                                THEN [lastset EXCEPT ![symbol] =
                                        IF success THEN "acked" ELSE "unacked"]
                                ELSE lastset
                  /\ IF o1.reply # NullReply /\ AppendsHistory(success)
                     THEN \E o2 \in LPushOutcomes(old), o3 \in LTrimOutcomes :
                          LET list1 == IF o2.applied THEN LPush(old, json_str) ELSE old
                              list2 == IF o3.applied THEN LTrim(list1, TrimStop) ELSE list1
                          IN /\ lists' = PutList(lists, hist_key, list2)
                             /\ cmds' = << Cmd("SET", key, json_str, o1),
                                           Cmd("LPUSH", hist_key, json_str, o2),
                                           Cmd("LTRIM", hist_key, EmptyStr, o3) >>
                             /\ pushed' = IF o2.applied
                                          THEN [pushed EXCEPT ![symbol] = <<json_str>> \o @]
                                          ELSE pushed
                             /\ untrimmed' = [untrimmed EXCEPT ![symbol] =
                                                IF o3.applied THEN FALSE
                                                ELSE IF o2.applied THEN TRUE ELSE @]
                     ELSE /\ cmds' = << Cmd("SET", key, json_str, o1) >>
                          /\ UNCHANGED <<lists, pushed, untrimmed>>

\* the arguments callers pass to storeTradingSignal and the clock readings
Signals == {"BUY"}
Reasons == {"rsi"}
Confidences == {1}
Times == 0..MaxTime

\* json signal_data = {{"symbol", symbol}, ..., {"source", "cpp_engine"}}
SignalData(symbol, signal, reason, confidence, now) ==
    [symbol |-> symbol, signal |-> signal, reason |-> reason,
     confidence |-> confidence, timestamp |-> now, source |-> "cpp_engine"]

\* mutant: the signal write uses the quote write's test
SignalAckedOkOnly(reply) == reply.type = "STATUS" /\ reply.str = OK

\* reply->type == REDIS_REPLY_STATUS
SignalAcked(reply) == reply.type = "STATUS"

\* bool storeTradingSignal(symbol, signal, reason, confidence); `now` is std::time(nullptr)
storeTradingSignal(symbol, signal, reason, confidence, now) ==
    /\ alive /\ ncalls < MaxCalls
    /\ ncalls' = ncalls + 1
    /\ UNCHANGED <<client, ghost, callers>>
    /\ LET key        == SignalLatestKey(symbol)
           json_str   == dump(SignalData(symbol, signal, reason, confidence, now))
           stream_key == SIGNALS_STREAM
           old        == ListAt(lists, stream_key)
       IN IF ~connected
          THEN /\ call' = Call("storeTradingSignal", symbol, json_str, NoReply, FALSE, EmptyStr, << >>)
               /\ cmds' = << >>
               /\ UNCHANGED <<store, dropped>>
          ELSE \E o1 \in SetOutcomes :
               LET success == o1.reply # NullReply /\ SignalAcked(o1.reply)
               IN /\ dropped' = (dropped \/ o1.reply = NullReply)
                  /\ strings' = IF o1.applied THEN SetApply(strings, key, json_str) ELSE strings
                  /\ call' = Call("storeTradingSignal", symbol, json_str, o1.reply, success, EmptyStr, << >>)
                  /\ IF success
                     THEN \E o2 \in LPushOutcomes(old) :
                          /\ lists' = IF o2.applied
                                      THEN PutList(lists, stream_key, LPush(old, json_str))
                                      ELSE lists
                          /\ cmds' = << Cmd("SET", key, json_str, o1),
                                        Cmd("LPUSH", stream_key, json_str, o2) >>
                     ELSE /\ cmds' = << Cmd("SET", key, json_str, o1) >>
                          /\ UNCHANGED lists

\* reply == nullptr || reply->type != REDIS_REPLY_STRING
GetMissed(reply) == reply = NullReply \/ reply.type # "STRING"

\* mutant: getStockData without its "if (!connected) return" line
getStockDataUnguarded(symbol) ==
    /\ alive /\ ncalls < MaxCalls
    /\ ncalls' = ncalls + 1
    /\ UNCHANGED <<client, store, ghost, callers>>
    /\ LET key == StockCurrentKey(symbol)
       IN \E o \in GetOutcomes(key) :
            /\ call' = Call("getStockData", symbol, EmptyStr, o.reply, FALSE,
                            IF GetMissed(o.reply) THEN EmptyStr ELSE o.reply.str, << >>)
            /\ cmds' = << Cmd("GET", key, EmptyStr, o) >>
            /\ dropped' = (dropped \/ o.reply = NullReply)

\* mutant: a read that gets no reply marks the client as disconnected
getStockDataDisconnecting(symbol) ==
    /\ alive /\ ncalls < MaxCalls
    /\ ncalls' = ncalls + 1
    /\ UNCHANGED <<alive, context, nextHandle, handles, store, ghost, callers>>
    /\ LET key == StockCurrentKey(symbol)
       IN IF ~connected
          THEN /\ call' = Call("getStockData", symbol, EmptyStr, NoReply, FALSE, EmptyStr, << >>)
               /\ cmds' = << >>
               /\ UNCHANGED <<connected, dropped>>
          ELSE \E o \in GetOutcomes(key) :
               /\ call' = Call("getStockData", symbol, EmptyStr, o.reply, FALSE,
                               IF GetMissed(o.reply) THEN EmptyStr ELSE o.reply.str, << >>)
               /\ cmds' = << Cmd("GET", key, EmptyStr, o) >>
               /\ dropped' = (dropped \/ o.reply = NullReply)
               /\ connected' = (o.reply # NullReply)

\* std::string getStockData(symbol)
getStockData(symbol) ==
    /\ alive /\ ncalls < MaxCalls
    /\ ncalls' = ncalls + 1
    /\ UNCHANGED <<client, store, ghost, callers>>
    /\ LET key == StockCurrentKey(symbol)
       IN IF ~connected
          THEN /\ call' = Call("getStockData", symbol, EmptyStr, NoReply, FALSE, EmptyStr, << >>)
               /\ cmds' = << >>
               /\ UNCHANGED dropped
          ELSE \E o \in GetOutcomes(key) :
               /\ call' = Call("getStockData", symbol, EmptyStr, o.reply, FALSE,
                               IF GetMissed(o.reply) THEN EmptyStr ELSE o.reply.str, << >>)
               /\ cmds' = << Cmd("GET", key, EmptyStr, o) >>
               /\ dropped' = (dropped \/ o.reply = NullReply)

\* mutant: a publish that reached nobody counts as failed
PublishAckedIfReceived(reply) == reply.type = "INTEGER" /\ reply.integer > 0

\* reply->type == REDIS_REPLY_INTEGER
PublishAcked(reply) == reply.type = "INTEGER"

\* mutant: the update is written under the channel name (SET in place of PUBLISH)
publishMarketUpdateStored(channel, data) ==
    /\ alive /\ ncalls < MaxCalls
    /\ ncalls' = ncalls + 1
    /\ UNCHANGED <<client, lists, ghost, callers>>
    /\ LET json_str == dump(data)
       IN IF ~connected
          THEN /\ call' = Call("publishMarketUpdate", channel, json_str, NoReply, FALSE, EmptyStr, << >>)
               /\ cmds' = << >>
               /\ UNCHANGED <<strings, dropped>>
          ELSE \E o \in PublishOutcomes :
               /\ call' = Call("publishMarketUpdate", channel, json_str, o.reply,
                               o.reply # NullReply /\ PublishAcked(o.reply), EmptyStr, << >>)
               /\ cmds' = << Cmd("PUBLISH", channel, json_str, o) >>
               /\ strings' = IF o.applied THEN SetApply(strings, channel, json_str) ELSE strings
               /\ dropped' = (dropped \/ o.reply = NullReply)

\* bool publishMarketUpdate(channel, data)
publishMarketUpdate(channel, data) ==
    /\ alive /\ ncalls < MaxCalls
    /\ ncalls' = ncalls + 1
    /\ UNCHANGED <<client, store, ghost, callers>>
    /\ LET json_str == dump(data)
       IN IF ~connected
          THEN /\ call' = Call("publishMarketUpdate", channel, json_str, NoReply, FALSE, EmptyStr, << >>)
               /\ cmds' = << >>
               /\ UNCHANGED dropped
          ELSE \E o \in PublishOutcomes :
               /\ call' = Call("publishMarketUpdate", channel, json_str, o.reply,
                               o.reply # NullReply /\ PublishAcked(o.reply), EmptyStr, << >>)
               /\ cmds' = << Cmd("PUBLISH", channel, json_str, o) >>
               /\ dropped' = (dropped \/ o.reply = NullReply)

\* the symbol pushed for one reply element, << >> when the key holds no ':'
ExtractSymbol(key) ==
    LET pos == FindLastOf(key, Colon)
    IN IF pos # 0 THEN << SubstrAfter(key, pos) >> ELSE << >>

\* the loop over reply->element[0 .. elements-1]
RECURSIVE CollectSymbols(_)
CollectSymbols(element) ==
    IF element = << >> THEN << >>
    ELSE ExtractSymbol(Head(element)) \o CollectSymbols(Tail(element))

\* the vector built from the reply: empty unless the reply is an array
SymbolsOf(reply) ==
    IF reply # NullReply /\ reply.type = "ARRAY"
    THEN CollectSymbols([i \in 1..Len(reply.element) |-> reply.element[i]])
    ELSE << >>

\* std::vector<std::string> getAvailableSymbols()
getAvailableSymbols ==
    /\ alive /\ ncalls < MaxCalls
    /\ ncalls' = ncalls + 1
    /\ UNCHANGED <<client, store, ghost, callers>>
    /\ IF ~connected
       THEN /\ call' = Call("getAvailableSymbols", EmptyStr, EmptyStr, NoReply, FALSE, EmptyStr, << >>)
            /\ cmds' = << >>
            /\ UNCHANGED dropped
       ELSE \E o \in KeysOutcomes :
            /\ call' = Call("getAvailableSymbols", EmptyStr, EmptyStr, o.reply, FALSE, EmptyStr,
                            SymbolsOf(o.reply))
            /\ cmds' = << Cmd("KEYS", STOCK_CURRENT \o <<"*">>, EmptyStr, o) >>
            /\ dropped' = (dropped \/ o.reply = NullReply)

----------------------------------------------------------------------------
(* Initial states and the next-state relation *)

\* a caller that has not started its call: the command it issues next, the
\* blob it writes, its result, and its place among the SETs and LPUSHes the
\* store has executed
Idle == [pc |-> "SET", blob |-> EmptyStr, ret |-> FALSE, setSeq |-> 0, pushSeq |-> 0]

\* the concurrent callers, each with a client of its own
Callers == 1..NumCallers

\* the blobs an earlier run of the engine left in a symbol's history: n
\* quotes with alternating prices, newest first
EarlierQuotes(n) == [i \in 1..n |-> dump([price |-> 1 + ((n - i) % 2)])]

\* The client is in the state its constructor leaves: members initialised,
\* connect() run once.  The store outlives the client: it holds what n
\* earlier acknowledged quote writes for AAPL left in it.
InitAfter(n) ==
    /\ alive = TRUE
    /\ \E outcome \in ConnectOutcomes :
         LET r == ConnectResult(NoHandles, outcome, 1)
         IN /\ context = r.context
            /\ handles = r.handles
            /\ connected = r.connected
            /\ nextHandle = IF outcome = "nullptr" THEN 1 ELSE 2
            /\ call = Call("RedisClient", EmptyStr, EmptyStr, NoReply, r.ret, EmptyStr, << >>)
    /\ cmds = << >>
    /\ ncalls = 0
    /\ dropped = FALSE
    /\ callers = [c \in Callers |-> Idle]
    /\ LET earlier == EarlierQuotes(n)
       IN /\ strings = IF n = 0 THEN NoKeys
                       ELSE SetApply(NoKeys, StockCurrentKey(AAPL), Head(earlier))
          /\ lists = PutList(NoKeys, StockHistoryKey(AAPL), earlier)
          /\ acked = [s \in Symbols |-> IF s = AAPL THEN earlier ELSE << >>]
          /\ pushed = [s \in Symbols |-> IF s = AAPL THEN earlier ELSE << >>]
    /\ untrimmed = [s \in Symbols |-> FALSE]
    /\ lastset = [s \in Symbols |-> IF s = AAPL /\ n > 0 THEN "acked" ELSE "none"]

\* a fresh store, or one that holds a single earlier quote
Init == \E n \in {0, 1} : InitAfter(n)

Next ==
    \/ connect
    \/ isConnected
    \/ Destroy
    \/ \E symbol \in Symbols, data \in Docs : storeStockData(symbol, data)
    \/ \E symbol \in SignalSymbols, signal \in Signals, reason \in Reasons,
          confidence \in Confidences, now \in Times :
          storeTradingSignal(symbol, signal, reason, confidence, now)
    \/ \E symbol \in Symbols : getStockData(symbol)
    \/ \E channel \in Channels, data \in PublishedDocs : publishMarketUpdate(channel, data)
    \/ getAvailableSymbols

Spec == Init /\ [][Next]_vars

----------------------------------------------------------------------------
(* The history cap: the same client against a store whose AAPL history is  *)
(* already one short of the cap, or at it.                                 *)

InitHist == \E n \in {TrimStop, HistCap} : InitAfter(n)

NextHist ==
    \/ \E data \in Docs : storeStockData(AAPL, data)
    \/ getStockData(AAPL)

SpecHist == InitHist /\ [][NextHist]_vars

----------------------------------------------------------------------------
(* Concurrent callers: each caller runs one storeStockData(AAPL, .) on a   *)
(* connected client of its own against the one store. The store executes  *)
(* the commands one at a time, in any interleaving; no command fails.      *)

\* how many callers have had their SET, and their LPUSH, executed
SetsDone == Cardinality({c \in Callers : callers[c].setSeq > 0})
PushesDone == Cardinality({c \in Callers : callers[c].pushSeq > 0})

\* the variables the callers' commands leave alone
single == <<client, call, cmds, ghost, ncalls, dropped>>

\* storeStockData, up to and including the reply to "SET %s %s"
storeStockData_SET(c, data) ==
    /\ callers[c].pc = "SET"
    /\ LET json_str == dump(data)
           reply    == Status(OK)
           success  == SetAcked(reply)
       IN /\ strings' = SetApply(strings, StockCurrentKey(AAPL), json_str)
          /\ callers' = [callers EXCEPT ![c] =
                           [pc |-> IF AppendsHistory(success) THEN "LPUSH" ELSE "done",
                            blob |-> json_str, ret |-> success,
                            setSeq |-> SetsDone + 1, pushSeq |-> 0]]
    /\ UNCHANGED <<lists, single>>

\* storeStockData, "LPUSH %s %s"
storeStockData_LPUSH(c) ==
    /\ callers[c].pc = "LPUSH"
    /\ LET hist_key == StockHistoryKey(AAPL)
       IN lists' = PutList(lists, hist_key, LPush(ListAt(lists, hist_key), callers[c].blob))
    /\ callers' = [callers EXCEPT ![c].pc = "LTRIM", ![c].pushSeq = PushesDone + 1]
    /\ UNCHANGED <<strings, single>>

\* storeStockData, "LTRIM %s 0 999" and the return
storeStockData_LTRIM(c) ==
    /\ callers[c].pc = "LTRIM"
    /\ LET hist_key == StockHistoryKey(AAPL)
       IN lists' = PutList(lists, hist_key, LTrim(ListAt(lists, hist_key), TrimStop))
    /\ callers' = [callers EXCEPT ![c].pc = "done"]
    /\ UNCHANGED <<strings, single>>

InitConc == \E n \in {TrimStop, HistCap} : InitAfter(n) /\ connected

NextConc ==
    \/ \E c \in Callers, data \in Docs : storeStockData_SET(c, data)
    \/ \E c \in Callers : storeStockData_LPUSH(c)
    \/ \E c \in Callers : storeStockData_LTRIM(c)

SpecConc == InitConc /\ [][NextConc]_vars

\* the history sequence of a symbol, as the store holds it
History(symbol) == ListAt(lists, StockHistoryKey(symbol))

\* the shared signal queue
Stream == ListAt(lists, SIGNALS_STREAM)

\* the call that ran last issued the command `name` and the store executed it
Executed(name) == \E i \in 1..Len(cmds) : cmds[i].name = name /\ cmds[i].applied

\* the call that ran last issued the command `name`
Issued(name) == \E i \in 1..Len(cmds) : cmds[i].name = name

----------------------------------------------------------------------------
(* C1 *)

\* C1 as stated: once 1000 or more storeStockData calls for a symbol have
\* returned true, the symbol's history is exactly the blobs of the 1000 most
\* recent of those calls, newest first.
C1_AckedCallsFillHistory ==
    \A s \in Symbols :
        Len(acked[s]) >= HistCap => History(s) = SubSeq(acked[s], 1, HistCap)

\* C1, amended: once the store has executed the LPUSH of 1000 or more
\* storeStockData calls for a symbol, and the LTRIM that followed the latest
\* of them, the symbol's history has length exactly 1000 and holds the blobs
\* of the 1000 most recent of those calls, newest first.
C1_PushedCallsFillHistory ==
    \A s \in Symbols :
        (Len(pushed[s]) >= HistCap /\ ~untrimmed[s])
            => History(s) = SubSeq(pushed[s], 1, HistCap)

\* more than 1000 blobs were pushed for AAPL, the last by a call that
\* returned true and whose LTRIM discarded the oldest one
C1_Witness ==
    /\ call.name = "storeStockData" /\ call.symbol = AAPL /\ call.retBool
    /\ Executed("LPUSH") /\ Executed("LTRIM")
    /\ Len(pushed[AAPL]) > HistCap
    /\ Len(History(AAPL)) = HistCap

----------------------------------------------------------------------------
(* C2 *)

\* C2 as stated: whenever a storeStockData call has returned, whatever the
\* outcome of its commands, no history holds more than 1000 entries.
C2_CapAfterEveryCall ==
    call.name = "storeStockData" =>
        \A s \in Symbols : Len(History(s)) <= HistCap

\* C2, amended: whenever a storeStockData call whose LTRIM the store
\* executed has returned, the history of the call's symbol holds at most
\* 1000 entries.
C2_CapAfterExecutedTrim ==
    (call.name = "storeStockData" /\ Executed("LTRIM"))
        => Len(History(call.symbol)) <= HistCap

\* a call on a full history whose LTRIM cut it back to the cap
C2_Witness ==
    /\ call.name = "storeStockData" /\ Executed("LPUSH") /\ Executed("LTRIM")
    /\ Len(pushed[call.symbol]) > HistCap
    /\ Len(History(call.symbol)) = HistCap
    /\ Head(History(call.symbol)) = call.blob

----------------------------------------------------------------------------
(* Vocabulary of the properties below *)

\* this step is a call of the method `name`
IsCall(name) == ncalls' = ncalls + 1 /\ call'.name = name

\* the reply is the store's +OK
IsOkStatus(reply) == reply.type = "STATUS" /\ reply.str = <<"O","K">>

\* the methods that talk to the store
DataMethods ==
    {"storeStockData", "storeTradingSignal", "getStockData",
     "publishMarketUpdate", "getAvailableSymbols"}

----------------------------------------------------------------------------
(* C3 *)

\* C3: a storeStockData call on a connected client whose SET is not
\* acknowledged (no reply, a non-status reply, a status other than "OK")
\* issues the SET and nothing else, leaves every list of the store as it was
\* and returns false.
C3_UnackedSetLeavesHistory ==
    [][ (IsCall("storeStockData") /\ connected /\ ~IsOkStatus(call'.reply))
            => /\ Len(cmds') = 1 /\ cmds'[1].name = "SET"
               /\ lists' = lists
               /\ ~call'.retBool ]_vars

\* a SET answered with a status other than "OK", on a symbol that has a history
C3_Witness ==
    /\ call.name = "storeStockData" /\ ~call.retBool
    /\ call.reply.type = "STATUS" /\ call.reply.str # <<"O","K">>
    /\ History(call.symbol) # << >>
    /\ cmds # << >>

----------------------------------------------------------------------------
(* C4 *)

\* C4: on a connected client storeStockData returns true exactly when the
\* reply to its SET is a status reply with the text "OK", whatever becomes
\* of the LPUSH and LTRIM that follow.
C4_ResultIsSetReply ==
    [][ (IsCall("storeStockData") /\ connected)
            => (call'.retBool <=> IsOkStatus(call'.reply)) ]_vars

\* a call that returned true although neither its LPUSH nor its LTRIM was executed
C4_Witness ==
    /\ call.name = "storeStockData" /\ call.retBool
    /\ Issued("LPUSH") /\ ~Executed("LPUSH")
    /\ Issued("LTRIM") /\ ~Executed("LTRIM")

----------------------------------------------------------------------------
(* C5 *)

\* C5 as stated: every storeTradingSignal call that returns true makes the
\* signal queue one longer, with the call's serialized document at its head.
C5_AckedSignalIsQueued ==
    [][ (IsCall("storeTradingSignal") /\ call'.retBool)
            => /\ Len(Stream') = Len(Stream) + 1
               /\ Head(Stream') = call'.blob ]_vars

\* C5, amended: every storeTradingSignal call that returns true and whose
\* LPUSH the store executed makes the signal queue one longer, and the new
\* head is the serialized document the call sent in its SET of
\* signal:latest:<symbol>; when the LPUSH is not executed the call still
\* returns true and the queue is unchanged.
C5_ExecutedPushIsQueued ==
    [][ (IsCall("storeTradingSignal") /\ call'.retBool)
            => /\ Len(cmds') = 2
               /\ cmds'[1].name = "SET"
               /\ cmds'[1].key = <<"s","i","g","n","a","l",":","l","a","t","e","s","t",":">> \o call'.symbol
               /\ cmds'[1].arg = call'.blob
               /\ cmds'[2].name = "LPUSH"
               /\ IF cmds'[2].applied
                  THEN /\ Len(Stream') = Len(Stream) + 1
                       /\ Head(Stream') = call'.blob
                       /\ Tail(Stream') = Stream
                  ELSE Stream' = Stream ]_vars

\* a second signal queued in front of a different, older one
C5_Witness ==
    /\ call.name = "storeTradingSignal" /\ call.retBool /\ Executed("LPUSH")
    /\ Len(Stream) = 2
    /\ Stream[1] = call.blob
    /\ Stream[2] # call.blob

----------------------------------------------------------------------------
(* C6 *)

\* C6: on a disconnected client every method that talks to the store
\* returns its failure value (false, the empty blob, the empty sequence),
\* issues no command, and leaves the store and the connected flag alone.
C6_DisconnectedShortCircuit ==
    [][ (~connected /\ \E m \in DataMethods : IsCall(m))
            => /\ cmds' = << >>
               /\ ~call'.retBool
               /\ call'.retStr = << >>
               /\ call'.retVec = << >>
               /\ strings' = strings /\ lists' = lists
               /\ connected' = connected ]_vars

\* a disconnected client asked for a quote the store does hold
C6_Witness ==
    /\ ~connected
    /\ call.name = "getStockData"
    /\ StockCurrentKey(call.symbol) \in DOMAIN strings
    /\ call.retStr = << >>
    /\ cmds = << >>

----------------------------------------------------------------------------
(* C7 *)

\* C7 as stated: on a connected client, getStockData of a symbol whose
\* latest executed quote write is one that storeStockData reported as
\* successful returns the blob of that write.
C7_ReadReturnsLastAcked ==
    [][ (IsCall("getStockData") /\ connected /\ lastset[call'.symbol] = "acked")
            => call'.retStr = Head(acked[call'.symbol]) ]_vars

\* C7, amended: on a connected client, getStockData of a symbol whose latest
\* executed quote write is one that storeStockData reported as successful
\* returns the blob of that write whenever the store answers the GET; when
\* the GET gets no reply or an error reply it returns the empty blob.
C7_AnsweredReadReturnsLastAcked ==
    [][ (IsCall("getStockData") /\ connected /\ lastset[call'.symbol] = "acked")
            => call'.retStr =
                 IF call'.reply.type \in {"nullptr", "ERROR"}
                 THEN << >>
                 ELSE Head(acked[call'.symbol]) ]_vars

\* a read that returned the second of two different acknowledged writes
C7_Witness ==
    /\ call.name = "getStockData" /\ call.reply.type = "STRING"
    /\ lastset[call.symbol] = "acked"
    /\ Len(acked[call.symbol]) >= 2
    /\ acked[call.symbol][1] # acked[call.symbol][2]
    /\ call.retStr = acked[call.symbol][1]

----------------------------------------------------------------------------
(* C8 *)

\* the part of a key after its last ':' (the whole key when it has none)
TrailingSegment(key) ==
    CHOOSE t \in { SubSeq(key, i, Len(key)) : i \in 1..(Len(key) + 1) } :
        /\ \A j \in 1..Len(t) : t[j] # ":"
        /\ (Len(t) = Len(key) \/ key[Len(key) - Len(t)] = ":")

\* C8: when the KEYS reply is an array, getAvailableSymbols returns one
\* entry per key matching stock:current:*, each the part of its key after
\* the last ':'; with exactly the keys stock:current:AAPL and
\* stock:current:TSLA stored it returns AAPL and TSLA, in either order.
C8_OneSymbolPerKey ==
    (call.name = "getAvailableSymbols" /\ call.reply.type = "ARRAY")
        => /\ \E p \in Orderings(MatchingKeys) :
                call.retVec = [i \in 1..Len(p) |-> TrailingSegment(p[i])]
           /\ MatchingKeys = { STOCK_CURRENT \o <<"A","A","P","L">>,
                               STOCK_CURRENT \o <<"T","S","L","A">> }
                => \/ call.retVec = << <<"A","A","P","L">>, <<"T","S","L","A">> >>
                   \/ call.retVec = << <<"T","S","L","A">>, <<"A","A","P","L">> >>

\* the listing of a store that holds the AAPL and TSLA quotes and no other
C8_Witness ==
    /\ call.name = "getAvailableSymbols" /\ call.reply.type = "ARRAY"
    /\ MatchingKeys = { StockCurrentKey(AAPL), StockCurrentKey(TSLA) }
    /\ Len(call.retVec) = 2

----------------------------------------------------------------------------
(* C9 *)

\* C9: on a connected client publishMarketUpdate returns true exactly when
\* the reply is of integer type, whatever the integer; a reply of 0 (no
\* subscriber) gives true.
C9_PublishResultIsReplyType ==
    [][ (IsCall("publishMarketUpdate") /\ connected)
            => /\ call'.retBool <=> (call'.reply.type = "INTEGER")
               /\ (call'.reply.type = "INTEGER" /\ call'.reply.integer = 0)
                    => call'.retBool ]_vars

\* a publish that reached no subscriber and returned true
C9_Witness ==
    /\ call.name = "publishMarketUpdate"
    /\ call.reply.type = "INTEGER" /\ call.reply.integer = 0
    /\ call.retBool

----------------------------------------------------------------------------
(* C10 *)

\* C10: a connect() call that got no context, or a context carrying an
\* error, leaves the client disconnected and without a context, has
\* released the context it got, and returns false; any other connect() call
\* leaves the client connected, holding the context it got, unreleased, and
\* returns true.  isConnected() returns true exactly when the client is in
\* the second of these states.
C10_ConnectOutcome ==
    [][ /\ IsCall("connect") =>
            LET got == (DOMAIN handles') \ (DOMAIN handles)
            IN IF got = {} \/ \E h \in got : handles'[h].err
               THEN /\ ~call'.retBool
                    /\ ~connected'
                    /\ context' = 0
                    /\ \A h \in got : handles'[h].frees = 1
               ELSE /\ call'.retBool
                    /\ connected'
                    /\ context' \in got
                    /\ handles'[context'].frees = 0
        /\ IsCall("isConnected") =>
            (call'.retBool <=>
                (context # 0 /\ ~handles[context].err /\ handles[context].frees = 0))
      ]_vars

\* a reconnect of a connected client that failed on a context carrying an error
C10_Witness ==
    /\ call.name = "connect" /\ ~call.retBool
    /\ ~connected /\ context = NULLPTR
    /\ \E h \in DOMAIN handles : handles[h].err /\ handles[h].frees = 1
    /\ \E h \in DOMAIN handles : ~handles[h].err

----------------------------------------------------------------------------
(* C11 *)

\* C11: no context is ever released twice, and once the client has been
\* destroyed every context it acquired (in its constructor or in a later
\* connect() call) has been released exactly once.
C11_EveryContextReleasedOnce ==
    /\ \A h \in DOMAIN handles : handles[h].frees <= 1
    /\ ~alive => \A h \in DOMAIN handles : handles[h].frees = 1

----------------------------------------------------------------------------
(* C12 *)

\* C12: on a connected client storeTradingSignal returns true exactly when
\* the reply to its SET is of status type, whatever the text; on any other
\* reply, or none, it returns false, issues no LPUSH and leaves the lists of
\* the store (the signal queue among them) as they were.
C12_SignalResultIsReplyType ==
    [][ (IsCall("storeTradingSignal") /\ connected)
            => /\ call'.retBool <=> (call'.reply.type = "STATUS")
               /\ ~call'.retBool
                    => /\ Len(cmds') = 1 /\ cmds'[1].name = "SET"
                       /\ lists' = lists ]_vars

\* a signal whose SET was answered with a status other than "OK": reported
\* as stored, and queued
C12_Witness ==
    /\ call.name = "storeTradingSignal" /\ call.retBool
    /\ call.reply.type = "STATUS" /\ call.reply.str # <<"O","K">>
    /\ Executed("LPUSH")
    /\ Head(Stream) = call.blob

----------------------------------------------------------------------------
(* C13 *)

\* the names of the commands the call that ran last issued, in order
CommandNames(cs) == [i \in 1..Len(cs) |-> cs[i].name]

\* the command sequences the claim allows a call of a method, given the
\* reply to the call's first command
AllowedCommands(name, reply) ==
    CASE name = "storeStockData" ->
            IF IsOkStatus(reply) THEN { <<"SET", "LPUSH", "LTRIM">> } ELSE { <<"SET">> }
      [] name = "storeTradingSignal" -> { <<"SET">>, <<"SET", "LPUSH">> }
      [] name = "getStockData" -> { <<"GET">> }
      [] name = "publishMarketUpdate" -> { <<"PUBLISH">> }
      [] name = "getAvailableSymbols" -> { <<"KEYS">> }

\* no command name occurs twice and there are at most 3 commands
NoReissue(cs) ==
    /\ Len(cs) <= 3
    /\ \A i, j \in 1..Len(cs) : cs[i].name = cs[j].name => i = j

\* C13 as stated: every call of a data method, whatever the state of the
\* client, issues its commands once each and in the stated order: SET then
\* nothing or LPUSH, LTRIM for storeStockData, SET then at most one LPUSH
\* for storeTradingSignal, exactly one command for the other three.
C13_CommandsOfEveryCall ==
    [][ \A m \in DataMethods :
           IsCall(m) => /\ NoReissue(cmds')
                        /\ CommandNames(cmds') \in AllowedCommands(m, call'.reply) ]_vars

\* C13 amended: no call issues a command twice or more than 3 commands; a
\* call on a connected client issues exactly the stated sequence (the LTRIM
\* also when the LPUSH failed), and a call on a client that is not connected
\* issues no command at all.
C13_CommandsOfACall ==
    [][ \A m \in DataMethods :
           IsCall(m) => /\ NoReissue(cmds')
                        /\ connected => CommandNames(cmds') \in AllowedCommands(m, call'.reply)
                        /\ ~connected => cmds' = << >> ]_vars

\* a quote write whose LPUSH failed and whose LTRIM was issued, and executed, all the same
C13_Witness ==
    /\ call.name = "storeStockData"
    /\ Len(cmds) = 3
    /\ cmds[2].name = "LPUSH" /\ ~cmds[2].applied
    /\ cmds[3].name = "LTRIM" /\ cmds[3].applied

----------------------------------------------------------------------------
(* C14 *)

\* C14: isConnected, getStockData, getAvailableSymbols and
\* publishMarketUpdate leave every key of the store (quote and signal
\* records, histories, the signal queue) and the connected flag as they were.
C14_ReadsChangeNothing ==
    [][ (\E m \in {"isConnected", "getStockData", "getAvailableSymbols",
                   "publishMarketUpdate"} : IsCall(m))
            => /\ strings' = strings
               /\ lists' = lists
               /\ connected' = connected ]_vars

\* an update that reached a subscriber, published against a store that holds a quote
C14_Witness ==
    /\ call.name = "publishMarketUpdate" /\ call.retBool
    /\ call.reply.integer = 1
    /\ cmds # << >> /\ cmds[1].applied
    /\ StockCurrentKey(AAPL) \in DOMAIN strings
    /\ History(AAPL) # << >>

----------------------------------------------------------------------------
(* C15 *)

\* every caller's storeStockData has returned
AllReturned == \A c \in Callers : callers[c].pc = "done"

\* C15 as stated: once all the concurrent calls have returned, the current
\* quote of the symbol equals the head of its history.
C15_CurrentIsHistoryHead ==
    AllReturned => strings[StockCurrentKey(AAPL)] = Head(History(AAPL))

\* C15 amended: once all the concurrent calls have returned, the current
\* quote is the blob of the call whose SET the store executed last and the
\* head of the history is the blob of the call whose LPUSH it executed last;
\* the two are equal when that is one and the same call.
C15_LastSetAndLastPushWin ==
    AllReturned =>
        \E a, b \in Callers :
            /\ callers[a].setSeq = NumCallers
            /\ callers[b].pushSeq = NumCallers
            /\ strings[StockCurrentKey(AAPL)] = callers[a].blob
            /\ Head(History(AAPL)) = callers[b].blob
            /\ a = b => strings[StockCurrentKey(AAPL)] = Head(History(AAPL))

\* all calls have returned, they wrote different blobs, and the call whose
\* SET came last is not the one whose LPUSH came last
C15_Witness ==
    /\ AllReturned
    /\ \E a, b \in Callers :
          /\ a # b
          /\ callers[a].setSeq = NumCallers /\ callers[b].pushSeq = NumCallers
          /\ callers[a].blob # callers[b].blob
          /\ strings[StockCurrentKey(AAPL)] = callers[a].blob
          /\ Head(History(AAPL)) = callers[b].blob

----------------------------------------------------------------------------
(* C16 *)

\* the calls whose LPUSH has been executed and whose LTRIM has not
BetweenPushAndTrim == {c \in Callers : callers[c].pc = "LTRIM"}

\* no call is under way: each caller has not started or has returned
NoneInProgress == \A c \in Callers : callers[c].pc \in {"SET", "done"}

\* C16: with concurrent callers and no failing command, the history of the
\* symbol never holds more than 1000 entries plus one for each call that is
\* between its LPUSH and its LTRIM, and no more than 1000 when no call is in
\* progress.
C16_CapUpToPendingTrims ==
    /\ Len(History(AAPL)) <= HistCap + Cardinality(BetweenPushAndTrim)
    /\ NoneInProgress => Len(History(AAPL)) <= HistCap

\* every caller has pushed onto a full history and none has trimmed yet
C16_Witness ==
    /\ BetweenPushAndTrim = Callers
    /\ Len(History(AAPL)) = HistCap + NumCallers

----------------------------------------------------------------------------
(* C17 *)

\* the command a data method issues first
FirstCommand(name) ==
    CASE name \in {"storeStockData", "storeTradingSignal"} -> "SET"
      [] name = "getStockData" -> "GET"
      [] name = "publishMarketUpdate" -> "PUBLISH"
      [] name = "getAvailableSymbols" -> "KEYS"

\* C17: the connected flag changes only in a connect() step. A data call
\* that gets no reply leaves it true, and on a connected client that has
\* had such a failure since its last connect, isConnected() still returns
\* true and every data call still issues its command to the store.
C17_OnlyConnectChangesFlag ==
    [][ /\ connected' # connected => IsCall("connect")
        /\ \A m \in DataMethods :
              (IsCall(m) /\ connected /\ call'.reply = NullReply) => connected'
        /\ (IsCall("isConnected") /\ connected /\ dropped) => call'.retBool
        /\ \A m \in DataMethods :
              (IsCall(m) /\ connected /\ dropped)
                 => cmds' # << >> /\ cmds'[1].name = FirstCommand(m) ]_vars

\* after a call that got no reply, a read is sent to the store and answered
\* with the stored quote
C17_Witness ==
    /\ connected /\ dropped
    /\ call.name = "getStockData"
    /\ cmds # << >> /\ cmds[1].name = "GET"
    /\ call.reply.type = "STRING"
    /\ call.retStr = strings[StockCurrentKey(call.symbol)]

----------------------------------------------------------------------------
(* C18 *)

\* C18: whenever getAvailableSymbols on a connected client is answered with
\* the array of keys, the sequence it returns contains every symbol for
\* which storeStockData has returned true and whose current-quote key is in
\* the store, symbols that contain ':' included.
C18_StoredSymbolsAreListed ==
    (call.name = "getAvailableSymbols" /\ call.reply.type = "ARRAY")
        => \A s \in Symbols :
              (acked[s] # << >> /\ StockCurrentKey(s) \in DOMAIN strings)
                 => \E i \in 1..Len(call.retVec) : call.retVec[i] = s

====
